---- MODULE Spec2Model ----
(***************************************************************************)
(* AniFig: animation presets for a design-tool plugin.                     *)
(*                                                                         *)
(* The state machines share the persisted blob `storage`:                  *)
(*   Spec       the UI-side Store with init retry and persist retry        *)
(*              (src/src/types.ts:120-464)                                 *)
(*   SpecSimple the single-attempt Store (src/src/store.ts)                *)
(*   SpecUI     the create form of the UI over that Store (src/src/ui.ts)  *)
(*   SpecCtl    the host-side Controller and the document                  *)
(*              (src/unnamed/part_009:240-488, built as src/build/code.js) *)
(*                                                                         *)
(* One action is one macrotask of the JavaScript event loop: a call made   *)
(* by a UI event handler, the completion of a storage call together with   *)
(* the whole chain of promise continuations it releases, or a timer firing.*)
(***************************************************************************)
EXTENDS Integers, Sequences, FiniteSets, TLC

(***************************************************************************)
(* Bounds of the model.                                                    *)
(***************************************************************************)
\* calls a client makes on one Store: init(), dispose() and the other methods
MaxOps == 3

(***************************************************************************)
(* Program constants.                                                      *)
(***************************************************************************)
MAX_RETRIES == 3
MAX_ANIMATIONS == 1000
NAME_MAX_LENGTH == 100
MAX_DURATION == 10000

(***************************************************************************)
(* JavaScript values.  A value carries its typeof tag so that the checks   *)
(* `typeof v === 'number'`, `!v` and Number.isFinite(v) can be computed.   *)
(***************************************************************************)
Num(k) == [t |-> "number", n |-> k, s |-> ""]
Undef == [t |-> "undefined", n |-> 0, s |-> ""]
NaN == [t |-> "number", n |-> 0, s |-> "NaN"]
Infinity == [t |-> "number", n |-> 0, s |-> "Infinity"]
Null == [t |-> "null", n |-> 0, s |-> ""]

IsNumber(v) == v.t = "number"

IsFinite(v) == v.t = "number" /\ v.s = ""

Falsy(v) ==
  \/ v.t = "undefined"
  \/ v.t = "null"
  \/ v.t = "number" /\ (v.s = "NaN" \/ (v.s = "" /\ v.n = 0))
  \/ v.t = "string" /\ v.s = ""

\* a field that is not there (undefined) in an object whose fields are strings
Absent == "undefined"

\* the number a comparison (<=, >=, <, >) converts its operand to; the strings
\* of the model other than "" are not numerals
ToNumber(v) ==
  IF v.t = "number" THEN v
  ELSE IF v.t = "null" \/ (v.t = "string" /\ v.s = "") THEN Num(0)
  ELSE NaN

PropKeys == {"opacity", "x", "y", "rotation", "scale"}

EmptyMap == [k \in {} |-> 0]

Put(m, k, v) == [x \in (DOMAIN m) \cup {k} |-> IF x = k THEN v ELSE m[x]]

Del(m, k) == [x \in (DOMAIN m) \ {k} |-> m[x]]

Pair(a, b) == [from |-> a, to |-> b]

\* an optional text field (description, group): undefined, or its characters
NoText == [has |-> FALSE, text |-> <<>>]
Text(cs) == [has |-> TRUE, text |-> cs]

MkPreset(ty, d, e, props) ==
  [type |-> ty, duration |-> d, easing |-> e, properties |-> props,
   hasProperties |-> TRUE, description |-> NoText, group |-> NoText]

(***************************************************************************)
(* Store.validateAnimation                                                 *)
(***************************************************************************)
\* the upper limit left out of the range test
DurationInRangeNoLimit(d) == IsFinite(d) /\ d.n > 0

DurationInRange(d) == IsFinite(d) /\ d.n > 0 /\ d.n <= MAX_DURATION

Has(props, k) == k \in DOMAIN props

NumPair(props, k) == IsNumber(props[k].from) /\ IsNumber(props[k].to)

ValidateFade(props) ==
  /\ Has(props, "opacity")
  /\ NumPair(props, "opacity")
  /\ IsFinite(props["opacity"].from) /\ IsFinite(props["opacity"].to)
  /\ props["opacity"].from.n >= 0
  /\ props["opacity"].to.n >= 0
  /\ props["opacity"].from.n <= 1
  /\ props["opacity"].to.n <= 1

ValidateSlide(props) ==
  LET hasValidX == ~Has(props, "x") \/ NumPair(props, "x")
      hasValidY == ~Has(props, "y") \/ NumPair(props, "y")
      hasPosition == Has(props, "x") \/ Has(props, "y")
  IN hasPosition /\ hasValidX /\ hasValidY

ValidateScale(props) ==
  /\ Has(props, "scale")
  /\ NumPair(props, "scale")
  /\ props["scale"].from.s # "NaN" /\ props["scale"].to.s # "NaN"
  /\ (props["scale"].from.s = "Infinity" \/ props["scale"].from.n > 0)
  /\ (props["scale"].to.s = "Infinity" \/ props["scale"].to.n > 0)

ValidateRotate(props) == Has(props, "rotation") /\ NumPair(props, "rotation")

validateAnimation(p) ==
  /\ ~(p.type = Absent \/ p.type = "")
  /\ ~Falsy(p.duration)
  /\ ~(p.easing = Absent \/ p.easing = "")
  /\ p.hasProperties
  /\ DurationInRange(p.duration)
  /\ CASE p.type = "fade" -> ValidateFade(p.properties)
       [] p.type = "slide" -> ValidateSlide(p.properties)
       [] p.type = "scale" -> ValidateScale(p.properties)
       [] p.type = "rotate" -> ValidateRotate(p.properties)
       [] OTHER -> FALSE

(***************************************************************************)
(* Store.validateAnimationName.  A name is the sequence of its characters. *)
(***************************************************************************)
Digits == {"0", "1", "2", "3", "4", "5", "6", "7", "8", "9"}

WordChars == {"a", "b", "c", "f", "i", "I", "n", "_"} \cup Digits

NameChar(c) == c \in WordChars \/ c = "-" \/ c = " "

IsBlank(name) == \A i \in 1..Len(name) : name[i] = " "

validateAnimationName(name) ==
  /\ ~IsBlank(name)
  /\ Len(name) <= NAME_MAX_LENGTH
  /\ Len(name) > 0
  /\ \A i \in 1..Len(name) : NameChar(name[i])

(***************************************************************************)
(* The inputs the operations are driven with.                              *)
(***************************************************************************)
NameA == <<"a">>
NameB == <<"b">>
NameBad == <<"a", "!">>

FadeIn == MkPreset("fade", Num(300), "ease", [k \in {"opacity"} |-> Pair(Num(0), Num(1))])
FadeOut == [MkPreset("fade", Num(600), "linear", [k \in {"opacity"} |-> Pair(Num(1), Num(0))])
             EXCEPT !.group = Text(<<"I", "n">>)]
BadFade == MkPreset("fade", Num(0), "ease", [k \in {"opacity"} |-> Pair(Num(0), Num(1))])

\* the (name, preset) arguments setAnimation and updateAnimation are called with
SetInputs == {<<NameA, FadeIn>>, <<NameA, FadeOut>>, <<NameA, BadFade>>, <<NameBad, FadeIn>>}
UpdateInputs == {<<NameA, FadeOut>>, <<NameA, FadeIn>>, <<NameA, BadFade>>}

\* a blob that holds MAX_ANIMATIONS valid entries: the names "000" to "999"
FullBlob == [k \in [1..3 -> Digits] |-> FadeIn]

\* blobs a previous session can have left in clientStorage
InitialBlobs ==
  { EmptyMap,
    [k \in {NameA, NameBad} |-> IF k = NameA THEN FadeIn ELSE BadFade] }

VARIABLES
  storage,                \* figma.clientStorage key 'animations'
  animations,             \* Store.animations
  initialized,            \* Store.initialized
  initializationPromise,  \* Store.initializationPromise: 0 = null, else a load sequence
  initTimeoutId,          \* Store.initTimeoutId: 0 = null, else the load sequence whose
                          \* current attempt armed the timer
  seqs,                   \* the initializeWithRetry chains started so far
  staleReads,             \* getAsync calls still pending whose attempt has timed out
  callers,                \* the init() calls made so far and what each observed
  writes,                 \* the persistWithRetry chains started so far
  lastCall,               \* the last Store method call and its result
  ncalls,                 \* number of Store method calls
  ndispose                \* number of dispose() calls

storeVars == <<animations, initialized, initializationPromise, initTimeoutId,
               seqs, staleReads, callers, writes, lastCall, ncalls, ndispose>>

\* the argument slot of a call that takes no preset
NoPreset == [type |-> Absent, duration |-> Undef, easing |-> Absent, properties |-> EmptyMap,
             hasProperties |-> FALSE, description |-> NoText, group |-> NoText]

NoCall == [op |-> "none", name |-> <<>>, preset |-> NoPreset, result |-> "none", found |-> {}]

StoreInit ==
  /\ animations = EmptyMap
  /\ initialized = FALSE
  /\ initializationPromise = 0
  /\ initTimeoutId = 0
  /\ seqs = <<>>
  /\ staleReads = 0
  /\ callers = <<>>
  /\ writes = <<>>
  /\ lastCall = NoCall
  /\ ncalls = 0
  /\ ndispose = 0

(***************************************************************************)
(* Store.init, initializeWithRetry, doInitialize.                          *)
(*                                                                         *)
(* seqs[s] is one initializeWithRetry chain: its attempt number, its phase *)
(* ("racing": Promise.race is undecided and the getAsync of this attempt   *)
(* is pending; "delay": waiting RETRY_DELAY; "ok"; "failed") and whether   *)
(* the timer of the racing attempt is still armed.  A timer whose race is  *)
(* decided does nothing when it fires and is not kept.                     *)
(***************************************************************************)
\* the preset test of the load negated: valid entries are the ones skipped
AcceptsStoredInverted(key, value) == validateAnimationName(key) /\ ~validateAnimation(value)

\* doInitialize after getAsync has answered: every stored entry with a valid
\* name and a valid preset is set into the collection
AcceptsStored(key, value) == validateAnimationName(key) /\ validateAnimation(value)

LoadStored(anims, stored) ==
  LET accepted == {k \in DOMAIN stored : AcceptsStored(k, stored[k])}
  IN [k \in (DOMAIN anims) \cup accepted |->
        IF k \in accepted THEN stored[k] ELSE anims[k]]

Racing(s) == s \in DOMAIN seqs /\ seqs[s].phase = "racing"

\* if (this.initTimeoutId) { clearTimeout(this.initTimeoutId); this.initTimeoutId = null }
\* applied to the chains sq: the timer that is cleared is the one whose id is stored
ClearTimeout(sq) ==
  IF initTimeoutId = 0 THEN sq ELSE [sq EXCEPT ![initTimeoutId].timer = FALSE]

Settle(s, outcome) ==
  [i \in DOMAIN callers |->
     IF callers[i].seq = s /\ callers[i].outcome = "pending"
     THEN [callers[i] EXCEPT !.outcome = outcome]
     ELSE callers[i]]

\* the retry test off by one: a fourth attempt is made
MayRetryOnceMore(attempt) == attempt <= MAX_RETRIES

\* the retry test of initializeWithRetry's catch block
MayRetry(attempt) == attempt < MAX_RETRIES

\* initializeWithRetry after the race was won by doInitialize, then init()
AttemptSucceeds(s) ==
  /\ seqs' = [ClearTimeout(seqs) EXCEPT ![s].phase = "ok", ![s].timer = FALSE]
  /\ initTimeoutId' = 0
  /\ initialized' = TRUE
  /\ callers' = Settle(s, "ok")
  /\ UNCHANGED initializationPromise

\* initializeWithRetry's catch block, then (on the last attempt) init()'s
AttemptFails(s) ==
  /\ initTimeoutId' = 0
  /\ IF MayRetry(seqs[s].attempt)
     THEN /\ seqs' = [ClearTimeout(seqs) EXCEPT ![s].phase = "delay", ![s].timer = FALSE]
          /\ UNCHANGED <<initialized, initializationPromise, callers>>
     ELSE /\ initialized' = FALSE
          /\ seqs' = [ClearTimeout(seqs) EXCEPT ![s].phase = "failed", ![s].timer = FALSE]
          /\ initializationPromise' = 0
          /\ callers' = Settle(s, "failed")

\* number of calls made on the Store so far
Ops == Len(callers) + ncalls + ndispose

\* init() without the test of initializationPromise: every call starts a sequence
NeverSharesPromise == FALSE

\* init() finds a load already in flight
SharesPromise == initializationPromise # 0

\* init() without its first test, if (this.initialized) return
InitCallWithoutReadyTest ==
  /\ Ops < MaxOps
  /\ IF SharesPromise
     THEN /\ callers' = Append(callers,
               [seq |-> initializationPromise,
                outcome |-> IF seqs[initializationPromise].phase \in {"ok", "failed"}
                            THEN seqs[initializationPromise].phase ELSE "pending"])
          /\ UNCHANGED <<initializationPromise, initTimeoutId, seqs>>
     ELSE /\ LET s == Len(seqs) + 1 IN
             /\ seqs' = Append(seqs, [attempt |-> 1, phase |-> "racing", timer |-> TRUE])
             /\ initTimeoutId' = s
             /\ initializationPromise' = s
             /\ callers' = Append(callers, [seq |-> s, outcome |-> "pending"])
  /\ UNCHANGED <<storage, animations, initialized, staleReads, writes, lastCall, ncalls,
                 ndispose>>

\* Store.init()
InitCall ==
  /\ Ops < MaxOps
  /\ IF initialized
     THEN /\ callers' = Append(callers, [seq |-> 0, outcome |-> "ok"])
          /\ UNCHANGED <<initializationPromise, initTimeoutId, seqs>>
     ELSE IF SharesPromise
     THEN /\ callers' = Append(callers,
               [seq |-> initializationPromise,
                outcome |-> IF seqs[initializationPromise].phase \in {"ok", "failed"}
                            THEN seqs[initializationPromise].phase ELSE "pending"])
          /\ UNCHANGED <<initializationPromise, initTimeoutId, seqs>>
     ELSE /\ LET s == Len(seqs) + 1 IN
             /\ seqs' = Append(seqs, [attempt |-> 1, phase |-> "racing", timer |-> TRUE])
             /\ initTimeoutId' = s
             /\ initializationPromise' = s
             /\ callers' = Append(callers, [seq |-> s, outcome |-> "pending"])
  /\ UNCHANGED <<storage, animations, initialized, staleReads, writes, lastCall, ncalls,
                 ndispose>>

\* getAsync of the racing attempt answers with the blob: doInitialize loads it
\* and wins the race
ReadOk(s) ==
  /\ Racing(s)
  /\ animations' = LoadStored(animations, storage)
  /\ AttemptSucceeds(s)
  /\ UNCHANGED <<storage, staleReads, writes, lastCall, ncalls, ndispose>>

\* getAsync of the racing attempt rejects (or answers with something that is
\* not an object): doInitialize throws
ReadFail(s) ==
  /\ Racing(s)
  /\ AttemptFails(s)
  /\ UNCHANGED <<storage, animations, staleReads, writes, lastCall, ncalls, ndispose>>

\* the INIT_TIMEOUT timer of the racing attempt fires; its getAsync stays pending
Timeout(s) ==
  /\ Racing(s)
  /\ seqs[s].timer
  /\ staleReads' = staleReads + 1
  /\ AttemptFails(s)
  /\ UNCHANGED <<storage, animations, writes, lastCall, ncalls, ndispose>>

\* a getAsync whose attempt has timed out answers: doInitialize still loads the blob
StaleReadOk ==
  /\ staleReads > 0
  /\ staleReads' = staleReads - 1
  /\ animations' = LoadStored(animations, storage)
  /\ UNCHANGED <<storage, initialized, initializationPromise, initTimeoutId, seqs, callers,
                 writes, lastCall, ncalls, ndispose>>

\* a getAsync whose attempt has timed out rejects
StaleReadFail ==
  /\ staleReads > 0
  /\ staleReads' = staleReads - 1
  /\ UNCHANGED <<storage, animations, initialized, initializationPromise, initTimeoutId,
                 seqs, callers, writes, lastCall, ncalls, ndispose>>

\* RETRY_DELAY has passed: initializeWithRetry(attempt + 1)
RetryInit(s) ==
  /\ s \in DOMAIN seqs
  /\ seqs[s].phase = "delay"
  /\ seqs' = [seqs EXCEPT ![s] = [attempt |-> seqs[s].attempt + 1, phase |-> "racing",
                                  timer |-> TRUE]]
  /\ initTimeoutId' = s
  /\ UNCHANGED <<storage, animations, initialized, initializationPromise, staleReads,
                 callers, writes, lastCall, ncalls, ndispose>>

\* Store.dispose()
Dispose ==
  /\ Ops < MaxOps
  /\ ndispose' = ndispose + 1
  /\ seqs' = ClearTimeout(seqs)
  /\ initTimeoutId' = 0
  /\ initialized' = FALSE
  /\ initializationPromise' = 0
  /\ animations' = EmptyMap
  /\ UNCHANGED <<storage, staleReads, callers, writes, lastCall, ncalls>>

(***************************************************************************)
(* Store: the synchronous methods.                                         *)
(***************************************************************************)
NotInitialized == "Store not initialized. Call init() first."

\* persistWithRetry(): the first attempt serialises the collection as it is now.
\* `observed` is what the caller of the mutating method has seen of this chain:
\* the method returned before the first write completed.
NewWrite(anims) ==
  [attempt |-> 1, phase |-> "writing", data |-> anims, observed |-> "returned"]

Called(op, name, preset, result) ==
  /\ lastCall' = [op |-> op, name |-> name, preset |-> preset, result |-> result,
                  found |-> {}]
  /\ ncalls' = ncalls + 1

Rejected(op, name, preset, result) ==
  /\ Called(op, name, preset, result)
  /\ UNCHANGED <<animations, writes>>

\* the capacity test off by one: the collection may grow to MAX_ANIMATIONS + 1
OverCapacity == Cardinality(DOMAIN animations) > MAX_ANIMATIONS

\* if (this.animations.size >= this.MAX_ANIMATIONS)
AtCapacity == Cardinality(DOMAIN animations) >= MAX_ANIMATIONS

\* the checks of setAnimation, in the order of the code: "" = accepted
SetError(name, preset) ==
  IF ~initialized THEN NotInitialized
  ELSE IF ~validateAnimationName(name) THEN "Invalid animation name"
  ELSE IF AtCapacity THEN "Maximum number of animations reached"
  ELSE IF ~validateAnimation(preset) THEN "Invalid animation preset"
  ELSE ""

\* setAnimation storing the entry before its checks: a rejected call leaves the entry behind
SetAnimationStoresFirst(name, preset) ==
  /\ Ops < MaxOps
  /\ animations' = Put(animations, name, preset)
  /\ IF SetError(name, preset) # ""
     THEN /\ Called("set", name, preset, SetError(name, preset))
          /\ UNCHANGED writes
     ELSE /\ writes' = Append(writes, NewWrite(animations'))
          /\ Called("set", name, preset, "ok")
  /\ UNCHANGED <<storage, initialized, initializationPromise, initTimeoutId, seqs,
                 staleReads, callers, ndispose>>

\* Store.setAnimation(name, preset)
SetAnimation(name, preset) ==
  /\ Ops < MaxOps
  /\ IF SetError(name, preset) # ""
     THEN Rejected("set", name, preset, SetError(name, preset))
     ELSE /\ animations' = Put(animations, name, preset)
          /\ writes' = Append(writes, NewWrite(animations'))
          /\ Called("set", name, preset, "ok")
  /\ UNCHANGED <<storage, initialized, initializationPromise, initTimeoutId, seqs,
                 staleReads, callers, ndispose>>

\* updateAnimation without the existence test: an update of an absent name is stored
UpdateErrorUpsert(name, preset) ==
  IF ~initialized THEN NotInitialized
  ELSE IF ~validateAnimation(preset) THEN "Invalid animation preset"
  ELSE ""

\* the checks of updateAnimation, in the order of the code: "" = accepted
UpdateError(name, preset) ==
  IF ~initialized THEN NotInitialized
  ELSE IF ~validateAnimation(preset) THEN "Invalid animation preset"
  ELSE IF name \notin DOMAIN animations THEN "does not exist"
  ELSE ""

\* this.animations.get(name): undefined has no fields to spread
Existing(anims, name) == IF name \in DOMAIN anims THEN anims[name] ELSE NoPreset

\* { ...existing, ...preset }: a field the new preset does not carry keeps its old value
Merge(existing, preset) ==
  [preset EXCEPT
     !.description = IF preset.description.has THEN preset.description ELSE existing.description,
     !.group = IF preset.group.has THEN preset.group ELSE existing.group]

\* Store.updateAnimation(name, preset)
UpdateAnimation(name, preset) ==
  /\ Ops < MaxOps
  /\ IF UpdateError(name, preset) # ""
     THEN Rejected("update", name, preset, UpdateError(name, preset))
     ELSE /\ animations' = Put(animations, name, Merge(Existing(animations, name), preset))
          /\ writes' = Append(writes, NewWrite(animations'))
          /\ Called("update", name, preset, "ok")
  /\ UNCHANGED <<storage, initialized, initializationPromise, initTimeoutId, seqs,
                 staleReads, callers, ndispose>>

\* Store.deleteAnimation(name)
DeleteAnimation(name) ==
  /\ Ops < MaxOps
  /\ IF ~initialized THEN Rejected("delete", name, NoPreset, NotInitialized)
     ELSE IF name \notin DOMAIN animations
     THEN Rejected("delete", name, NoPreset, "does not exist")
     ELSE /\ animations' = Del(animations, name)
          /\ writes' = Append(writes, NewWrite(animations'))
          /\ Called("delete", name, NoPreset, "ok")
  /\ UNCHANGED <<storage, initialized, initializationPromise, initTimeoutId, seqs,
                 staleReads, callers, ndispose>>

\* Store.getAnimation(name)
GetAnimation(name) ==
  /\ Ops < MaxOps
  /\ Rejected("get", name, NoPreset,
              IF ~initialized THEN NotInitialized
              ELSE IF name \in DOMAIN animations THEN "found" ELSE "undefined")
  /\ UNCHANGED <<storage, initialized, initializationPromise, initTimeoutId, seqs,
                 staleReads, callers, ndispose>>

(***************************************************************************)
(* Store.searchAnimations                                                  *)
(***************************************************************************)
ToLower(cs) == [i \in 1..Len(cs) |-> IF cs[i] = "I" THEN "i" ELSE cs[i]]

RECURSIVE TrimStart(_)
TrimStart(cs) == IF cs # <<>> /\ Head(cs) = " " THEN TrimStart(Tail(cs)) ELSE cs

RECURSIVE TrimEnd(_)
TrimEnd(cs) ==
  IF cs # <<>> /\ cs[Len(cs)] = " " THEN TrimEnd(SubSeq(cs, 1, Len(cs) - 1)) ELSE cs

Trim(cs) == TrimEnd(TrimStart(cs))

\* String.prototype.includes
Includes(hay, needle) ==
  \E i \in 0..(Len(hay) - Len(needle)) : SubSeq(hay, i + 1, i + Len(needle)) = needle

\* the filter of searchAnimations; an empty or undefined text field is falsy and is skipped
Matches(name, preset, q) ==
  \/ Includes(ToLower(name), q)
  \/ preset.description.has /\ preset.description.text # <<>>
       /\ Includes(ToLower(preset.description.text), q)
  \/ preset.group.has /\ preset.group.text # <<>>
       /\ Includes(ToLower(preset.group.text), q)

searchAnimations(anims, query) ==
  IF query = <<>> THEN {}
  ELSE {k \in DOMAIN anims : Matches(k, anims[k], Trim(ToLower(query)))}

Queries == {<<>>, <<"I", "n">>}

\* Store.searchAnimations(query); the result is the set of names found
SearchAnimations(query) ==
  /\ Ops < MaxOps
  /\ lastCall' = [op |-> "search", name |-> query, preset |-> NoPreset,
                  result |-> IF ~initialized THEN NotInitialized ELSE "found",
                  found |-> IF initialized THEN searchAnimations(animations, query) ELSE {}]
  /\ ncalls' = ncalls + 1
  /\ UNCHANGED <<storage, animations, writes, initialized, initializationPromise,
                 initTimeoutId, seqs, staleReads, callers, ndispose>>


(***************************************************************************)
(* Store.persistWithRetry: the asynchronous part.                          *)
(***************************************************************************)
Writing(w) == w \in DOMAIN writes /\ writes[w].phase = "writing"

\* the retry test of persistWithRetry's catch block
MayRetryWrite(attempt) == attempt < MAX_RETRIES

\* a write that merges the serialised collection over the blob instead of replacing it
WriteOkMerging(w) ==
  /\ Writing(w)
  /\ storage' = [k \in (DOMAIN storage) \cup (DOMAIN writes[w].data) |->
                   IF k \in DOMAIN writes[w].data THEN writes[w].data[k] ELSE storage[k]]
  /\ writes' = [writes EXCEPT ![w].phase = "ok"]
  /\ UNCHANGED <<animations, initialized, initializationPromise, initTimeoutId, seqs,
                 staleReads, callers, lastCall, ncalls, ndispose>>

\* setAsync resolves: the blob is what this attempt serialised
WriteOk(w) ==
  /\ Writing(w)
  /\ storage' = writes[w].data
  /\ writes' = [writes EXCEPT ![w].phase = "ok"]
  /\ UNCHANGED <<animations, initialized, initializationPromise, initTimeoutId, seqs,
                 staleReads, callers, lastCall, ncalls, ndispose>>

\* setAsync rejects: wait RETRY_DELAY and try again, or rethrow after the last attempt.
\* Nothing awaits or catches the promise of persistWithRetry, so the rethrown
\* error reaches no caller: `observed` stays as it was.
WriteFail(w) ==
  /\ Writing(w)
  /\ writes' = [writes EXCEPT ![w].phase =
                  IF MayRetryWrite(writes[w].attempt) THEN "delay" ELSE "failed"]
  /\ UNCHANGED <<storage, animations, initialized, initializationPromise, initTimeoutId, seqs,
                 staleReads, callers, lastCall, ncalls, ndispose>>

\* RETRY_DELAY has passed: persistWithRetry(attempt + 1) serialises the collection again
RetryWrite(w) ==
  /\ w \in DOMAIN writes
  /\ writes[w].phase = "delay"
  /\ writes' = [writes EXCEPT ![w] = [@ EXCEPT !.attempt = @ + 1, !.phase = "writing",
                                                !.data = animations]]
  /\ UNCHANGED <<storage, animations, initialized, initializationPromise, initTimeoutId, seqs,
                 staleReads, callers, lastCall, ncalls, ndispose>>


(***************************************************************************)
(* The single-attempt Store of src/src/store.ts.                           *)
(***************************************************************************)
VARIABLES
  sAnimations,   \* Store.animations
  sInitialized,  \* Store.initialized
  sPromise,      \* Store.initializationPromise: "null", "pending", "resolved", "rejected"
  sRead,         \* the getAsync call of init(): "none", "pending", "done"
  sTimer,        \* the INIT_TIMEOUT timer is armed
  sCallers,      \* what each init() call has observed
  sWrites,       \* the persist() calls made so far
  sLastCall,     \* the last Store method call and its result
  sNcalls,        \* number of Store method calls
  uiPosted       \* the create-animation messages the UI that owns this Store has posted

simpleVars == <<sAnimations, sInitialized, sPromise, sRead, sTimer, sCallers, sWrites,
                sLastCall, sNcalls, uiPosted>>

SimpleInit ==
  /\ sAnimations = EmptyMap
  /\ sInitialized = FALSE
  /\ sPromise = "null"
  /\ sRead = "none"
  /\ sTimer = FALSE
  /\ sCallers = <<>>
  /\ sWrites = <<>>
  /\ sLastCall = NoCall
  /\ sNcalls = 0
  /\ uiPosted = <<>>

\* validateAnimation of store.ts: no typeof checks, no easing check beyond presence
SimpleGe0Le1(v) == IsFinite(ToNumber(v)) /\ ToNumber(v).n >= 0 /\ ToNumber(v).n <= 1

SimpleGt0(v) == ToNumber(v).s # "NaN" /\ (ToNumber(v).s = "Infinity" \/ ToNumber(v).n > 0)

\* duration <= 0 || duration > 10000
SimpleDurationOut(d) ==
  \/ ToNumber(d).s = "Infinity"
  \/ ToNumber(d).s = "" /\ (ToNumber(d).n <= 0 \/ ToNumber(d).n > MAX_DURATION)

SimpleDefined(props, k, side) ==
  Has(props, k) /\ (IF side = "from" THEN props[k].from ELSE props[k].to).t # "undefined"

validateAnimationSimple(p) ==
  /\ ~(p.type = Absent \/ p.type = "")
  /\ ~Falsy(p.duration)
  /\ ~(p.easing = Absent \/ p.easing = "")
  /\ p.hasProperties
  /\ ~SimpleDurationOut(p.duration)
  /\ CASE p.type = "fade" ->
            /\ Has(p.properties, "opacity")
            /\ SimpleGe0Le1(p.properties["opacity"].from)
            /\ SimpleGe0Le1(p.properties["opacity"].to)
       [] p.type = "slide" ->
            /\ Has(p.properties, "x") \/ Has(p.properties, "y")
            /\ SimpleDefined(p.properties, "x", "from") \/ SimpleDefined(p.properties, "y", "from")
            /\ SimpleDefined(p.properties, "x", "to") \/ SimpleDefined(p.properties, "y", "to")
       [] p.type = "scale" ->
            /\ Has(p.properties, "scale")
            /\ SimpleGt0(p.properties["scale"].from)
            /\ SimpleGt0(p.properties["scale"].to)
       [] p.type = "rotate" -> Has(p.properties, "rotation")
       [] OTHER -> FALSE

\* the forEach of init(): every stored entry is set, unchecked
LoadAll(anims, stored) ==
  [k \in (DOMAIN anims) \cup (DOMAIN stored) |->
     IF k \in DOMAIN stored THEN stored[k] ELSE anims[k]]

SSettle(outcome) ==
  [i \in DOMAIN sCallers |-> IF sCallers[i] = "pending" THEN outcome ELSE sCallers[i]]

\* number of calls made on the Store so far
SOps == Len(sCallers) + sNcalls

\* Store.init()
SInitCall ==
  /\ SOps < MaxOps
  /\ IF sInitialized
     THEN /\ sCallers' = Append(sCallers, "ok")
          /\ UNCHANGED <<sPromise, sRead, sTimer>>
     ELSE IF sPromise # "null"
     THEN /\ sCallers' = Append(sCallers, IF sPromise = "resolved" THEN "ok"
                                          ELSE IF sPromise = "rejected" THEN "failed"
                                          ELSE "pending")
          /\ UNCHANGED <<sPromise, sRead, sTimer>>
     ELSE /\ sPromise' = "pending"
          /\ sTimer' = TRUE
          /\ sRead' = "pending"
          /\ sCallers' = Append(sCallers, "pending")
  /\ UNCHANGED <<storage, sAnimations, sInitialized, sWrites, sLastCall, sNcalls>>

\* getAsync answers: entries are loaded, initialized is set, the timer is cleared,
\* resolve() settles the promise unless the timeout has rejected it already
SReadOk ==
  /\ sRead = "pending"
  /\ sRead' = "done"
  /\ sAnimations' = LoadAll(sAnimations, storage)
  /\ sInitialized' = TRUE
  /\ sTimer' = FALSE
  /\ IF sPromise = "pending"
     THEN sPromise' = "resolved" /\ sCallers' = SSettle("ok")
     ELSE UNCHANGED <<sPromise, sCallers>>
  /\ UNCHANGED <<storage, sWrites, sLastCall, sNcalls>>

\* getAsync rejects
SReadFail ==
  /\ sRead = "pending"
  /\ sRead' = "done"
  /\ sInitialized' = FALSE
  /\ sTimer' = FALSE
  /\ IF sPromise = "pending"
     THEN sPromise' = "rejected" /\ sCallers' = SSettle("failed")
     ELSE UNCHANGED <<sPromise, sCallers>>
  /\ UNCHANGED <<storage, sAnimations, sWrites, sLastCall, sNcalls>>

\* the INIT_TIMEOUT timer fires while getAsync is still pending
STimeout ==
  /\ sTimer
  /\ sTimer' = FALSE
  /\ sInitialized' = FALSE
  /\ IF sPromise = "pending"
     THEN sPromise' = "rejected" /\ sCallers' = SSettle("failed")
     ELSE UNCHANGED <<sPromise, sCallers>>
  /\ UNCHANGED <<storage, sAnimations, sRead, sWrites, sLastCall, sNcalls>>

SCalled(op, name, preset, result) ==
  /\ sLastCall' = [op |-> op, name |-> name, preset |-> preset, result |-> result,
                   found |-> {}]
  /\ sNcalls' = sNcalls + 1

SRejected(op, name, preset, result) ==
  /\ SCalled(op, name, preset, result)
  /\ UNCHANGED <<sAnimations, sWrites>>

SAccepted(op, name, preset, anims) ==
  /\ sAnimations' = anims
  /\ sWrites' = Append(sWrites, [phase |-> "writing", data |-> anims, observed |-> "returned"])
  /\ SCalled(op, name, preset, "ok")

\* Store.setAnimation(name, preset)
SSetAnimation(name, preset) ==
  /\ SOps < MaxOps
  /\ IF ~sInitialized THEN SRejected("set", name, preset, NotInitialized)
     ELSE IF ~validateAnimationSimple(preset) THEN SRejected("set", name, preset, "Invalid animation preset")
     ELSE IF name \in DOMAIN sAnimations THEN SRejected("set", name, preset, "already exists")
     ELSE SAccepted("set", name, preset, Put(sAnimations, name, preset))
  /\ UNCHANGED <<storage, sInitialized, sPromise, sRead, sTimer, sCallers>>

\* Store.updateAnimation(name, preset): the entry is replaced
SUpdateAnimation(name, preset) ==
  /\ SOps < MaxOps
  /\ IF ~sInitialized THEN SRejected("update", name, preset, NotInitialized)
     ELSE IF ~validateAnimationSimple(preset) THEN SRejected("update", name, preset, "Invalid animation preset")
     ELSE IF name \notin DOMAIN sAnimations THEN SRejected("update", name, preset, "does not exist")
     ELSE SAccepted("update", name, preset, Put(sAnimations, name, preset))
  /\ UNCHANGED <<storage, sInitialized, sPromise, sRead, sTimer, sCallers>>

\* Store.deleteAnimation(name)
SDeleteAnimation(name) ==
  /\ SOps < MaxOps
  /\ IF ~sInitialized THEN SRejected("delete", name, NoPreset, NotInitialized)
     ELSE IF name \notin DOMAIN sAnimations THEN SRejected("delete", name, NoPreset, "does not exist")
     ELSE SAccepted("delete", name, NoPreset, Del(sAnimations, name))
  /\ UNCHANGED <<storage, sInitialized, sPromise, sRead, sTimer, sCallers>>

\* Store.getAnimation(name)
SGetAnimation(name) ==
  /\ SOps < MaxOps
  /\ SRejected("get", name, NoPreset, IF ~sInitialized THEN NotInitialized
                            ELSE IF name \in DOMAIN sAnimations THEN "found" ELSE "undefined")
  /\ UNCHANGED <<storage, sInitialized, sPromise, sRead, sTimer, sCallers>>

\* searchAnimations of store.ts: no empty-query test, no trim
searchAnimationsSimple(anims, query) ==
  {k \in DOMAIN anims :
     \/ Includes(ToLower(k), ToLower(query))
     \/ anims[k].description.has /\ Includes(ToLower(anims[k].description.text), ToLower(query))
     \/ anims[k].group.has /\ Includes(ToLower(anims[k].group.text), ToLower(query))}

\* Store.searchAnimations(query)
SSearchAnimations(query) ==
  /\ SOps < MaxOps
  /\ sLastCall' = [op |-> "search", name |-> query, preset |-> NoPreset,
                   result |-> IF ~sInitialized THEN NotInitialized ELSE "found",
                   found |-> IF sInitialized THEN searchAnimationsSimple(sAnimations, query)
                             ELSE {}]
  /\ sNcalls' = sNcalls + 1
  /\ UNCHANGED <<storage, sAnimations, sWrites, sInitialized, sPromise, sRead, sTimer, sCallers>>

\* persist(): setAsync resolves
SWriteOk(w) ==
  /\ w \in DOMAIN sWrites
  /\ sWrites[w].phase = "writing"
  /\ storage' = sWrites[w].data
  /\ sWrites' = [sWrites EXCEPT ![w].phase = "ok"]
  /\ UNCHANGED <<sAnimations, sInitialized, sPromise, sRead, sTimer, sCallers, sLastCall, sNcalls>>

\* persist(): setAsync rejects; the promise of persist() is dropped by its caller
SWriteFail(w) ==
  /\ w \in DOMAIN sWrites
  /\ sWrites[w].phase = "writing"
  /\ sWrites' = [sWrites EXCEPT ![w].phase = "failed"]
  /\ UNCHANGED <<storage, sAnimations, sInitialized, sPromise, sRead, sTimer, sCallers,
                 sLastCall, sNcalls>>


(***************************************************************************)
(* The create form of the UI (src/src/ui.ts:357-463, built as              *)
(* src/build/ui.js).  The form is rendered once the UI's own init() call,  *)
(* the first made on its Store, has resolved.                              *)
(***************************************************************************)
\* what the click handler reads from the form: the name, the type select, the
\* parseInt of the duration field, the easing select, description and group.
\* The default of 'scale' starts at 0.5, which is no integer: the type select is
\* driven with 'fade' and 'rotate'.
FormInputs ==
  {NameA, NameB, <<" ", "a">>, <<" ">>} \X {"fade", "rotate"}
    \X {Num(300), Num(0), Num(10001), NaN} \X {"ease"}
    \X {<<>>} \X {<<" ">>, <<"I", "n">>}

\* getDefaultProperties(type)
getDefaultProperties(type) ==
  CASE type = "fade" -> [k \in {"opacity"} |-> Pair(Num(0), Num(1))]
    [] type = "slide" -> [k \in {"x"} |-> Pair(Num(-100), Num(0))]
    [] type = "rotate" -> [k \in {"rotation"} |-> Pair(Num(-180), Num(0))]
    [] OTHER -> EmptyMap

\* value.trim() || undefined
TrimmedOrUndefined(cs) == IF Trim(cs) = <<>> THEN NoText ELSE Text(Trim(cs))

\* the click handler posting before it asks the Store, outside any try block
CreateClickPostsFirst(name, type, duration, easing, description, group) ==
  LET animation == [MkPreset(type, duration, easing, getDefaultProperties(type))
                      EXCEPT !.description = TrimmedOrUndefined(description),
                             !.group = TrimmedOrUndefined(group)]
  IN  /\ sCallers # <<>> /\ sCallers[1] = "ok"
      /\ IF Trim(name) = <<>> \/ duration.s = "NaN" \/ duration.n <= 0
         THEN UNCHANGED <<storage, simpleVars>>
         ELSE /\ uiPosted' = Append(uiPosted, [name |-> Trim(name), properties |-> animation])
              /\ SSetAnimation(Trim(name), animation)

\* createBtn click: setAnimation, then postMessage, both inside the try block
CreateClick(name, type, duration, easing, description, group) ==
  LET animation == [MkPreset(type, duration, easing, getDefaultProperties(type))
                      EXCEPT !.description = TrimmedOrUndefined(description),
                             !.group = TrimmedOrUndefined(group)]
  IN  /\ sCallers # <<>> /\ sCallers[1] = "ok"
      /\ IF Trim(name) = <<>> \/ duration.s = "NaN" \/ duration.n <= 0
         THEN UNCHANGED <<storage, simpleVars>>
         ELSE /\ SSetAnimation(Trim(name), animation)
              /\ uiPosted' = IF sLastCall'.result = "ok"
                             THEN Append(uiPosted, [name |-> Trim(name), properties |-> animation])
                             ELSE uiPosted

(***************************************************************************)
(* The validators applied to presets of every shape.  validateAnimation is *)
(* private: it is reached through setAnimation, updateAnimation and the    *)
(* load, with whatever object the caller or the blob holds.                *)
(***************************************************************************)
MaxValidations == 2

VARIABLES
  vPreset,  \* the object validateAnimation is called with
  vRetry,   \* what validateAnimation of types.ts has returned for it, call by call
  vSimple   \* what validateAnimation of store.ts has returned for it, call by call

valVars == <<vPreset, vRetry, vSimple>>

Types == {"fade", "slide", "scale", "rotate", "spin"}

Durations == {Num(300), Num(0), Num(-1), Num(10000), Num(10001), NaN, Infinity, Undef, Null}

Easings == {"ease", ""}

\* what a from or a to can hold
Sides == {Num(0), Num(1), Num(2), Num(-1), NaN, Undef, Null}

\* the properties object: empty, one key, or x and y with sides that are there or not
PropSets ==
  {EmptyMap}
    \cup {[k \in {key} |-> Pair(a, b)] : key \in PropKeys, a \in Sides, b \in Sides}
    \cup {[k \in {"x", "y"} |-> IF k = "x" THEN Pair(xs[1], xs[2]) ELSE Pair(ys[1], ys[2])] :
            xs \in {Num(0), Undef} \X {Num(0), Undef},
            ys \in {Num(0), Undef} \X {Num(0), Undef}}

Presets ==
  {MkPreset(ty, d, e, props) : ty \in Types, d \in Durations, e \in Easings, props \in PropSets}

\* no validation is in progress
ValidatorIdle == vPreset = FadeIn /\ vRetry = <<>> /\ vSimple = <<>>

ValidatorInit == vPreset \in Presets /\ vRetry = <<>> /\ vSimple = <<>>

\* validateAnimation(preset) of types.ts: it assigns to no field of the Store
ValidateRetry ==
  /\ Len(vRetry) + Len(vSimple) < MaxValidations
  /\ vRetry' = Append(vRetry, validateAnimation(vPreset))
  /\ UNCHANGED <<vPreset, vSimple>>

\* validateAnimation(preset) of store.ts: it assigns to no field of the Store
ValidateSimple ==
  /\ Len(vRetry) + Len(vSimple) < MaxValidations
  /\ vSimple' = Append(vSimple, validateAnimationSimple(vPreset))
  /\ UNCHANGED <<vPreset, vRetry>>


(***************************************************************************)
(* The host-side Controller (code.ts as built in build/code.js) and the    *)
(* document it works on.                                                   *)
(***************************************************************************)
MaxMsgs == 3

VARIABLES
  animationStore,  \* the Controller's preset dictionary
  isInitialized,   \* the Controller is Ready
  ctlLoad,         \* the getAsync of initializePlugin: "pending" or "done"
  inbox,           \* messages posted by the UI and not yet handled, in send order
  handlers,        \* handlers suspended at `await figma.clientStorage.setAsync(...)`
  nodes,           \* the objects of the current page: tag, snapshot, live values
  markers,         \* the transition frames created by applyAnimation, in page order
  selection,       \* figma.currentPage.selection
  lastNote,        \* the last figma.notify
  lastPost,        \* the last figma.ui.postMessage
  nsent,           \* number of messages the UI has posted
  ndelivered       \* number of messages whose handler has started

ctlVars == <<animationStore, isInitialized, ctlLoad, inbox, handlers, nodes, markers,
             selection, lastNote, lastPost, nsent, ndelivered>>

vars == <<storage, storeVars, simpleVars, ctlVars, valVars>>

\* the objects of the page: two that can be animated, one that exposes no
\* animatable property
Nodes == {1, 2, 3}

Capabilities(n) == IF n = 3 THEN {} ELSE {"opacity", "x", "y", "rotation"}

\* the capability test left out: every selected object is tagged
AlwaysAnimatable(n) == TRUE

\* 'opacity' in node || 'x' in node || 'rotation' in node
Animatable(n) ==
  "opacity" \in Capabilities(n) \/ "x" \in Capabilities(n) \/ "rotation" \in Capabilities(n)

NoTag == <<>>

Note(text, count) == [text |-> text, count |-> count]

NoPost == [type |-> "none", isInitialized |-> FALSE, animations |-> <<>>]

\* the messages the UI posts; a field a message kind does not carry is filled in
Msgs ==
  {[type |-> "check-ready", name |-> NoTag, preset |-> FadeIn],
   [type |-> "find-similar", name |-> NoTag, preset |-> FadeIn],
   [type |-> "create-animation", name |-> NameB, preset |-> FadeIn],
   [type |-> "create-animation", name |-> NameA, preset |-> FadeOut],
   [type |-> "modify-shared", name |-> NameA, preset |-> FadeOut],
   [type |-> "modify-shared", name |-> NameA,
    preset |-> [FadeIn EXCEPT !.properties = [k \in {"opacity", "scale"} |-> Pair(Num(0), Num(1))]]],
   [type |-> "apply-animation", name |-> NameA, preset |-> FadeIn],
   [type |-> "apply-animation", name |-> NameB, preset |-> FadeIn]}

\* the selections the user makes
Selections == {{}, {1}, {2}, {1, 2, 3}}

(***************************************************************************)
(* applyAnimation(node, animation)                                         *)
(***************************************************************************)
\* JSON.stringify writes a number that is not finite as null
JsonNum(v) == IF v.t = "number" /\ v.s # "" THEN Null ELSE v

\* JSON.stringify({ duration, easing, properties })
Snapshot(animation) ==
  [duration |-> JsonNum(animation.duration),
   easing |-> animation.easing,
   properties |-> [k \in DOMAIN animation.properties |->
                     Pair(JsonNum(animation.properties[k].from),
                          JsonNum(animation.properties[k].to))]]

\* the keys of the preset that the node has: `key in node`
AppliedKeys(n, animation) == (DOMAIN animation.properties) \cap Capabilities(n)

Marker(n, key, animation) ==
  [target |-> n, key |-> key,
   from |-> animation.properties[key].from, to |-> animation.properties[key].to,
   duration |-> animation.duration, easing |-> animation.easing]

\* applyAnimation without the removal of the frames that target the node already
applyAnimationKeepsMarkers(doc, n, animation) ==
  LET keys == SelectSeq(<<"opacity", "x", "y", "rotation", "scale">>,
                        LAMBDA k : k \in AppliedKeys(n, animation))
  IN [nodes |-> [doc.nodes EXCEPT
                   ![n].props = <<Snapshot(animation)>>,
                   ![n].live = [k \in Capabilities(n) |->
                                  IF k \in AppliedKeys(n, animation)
                                  THEN animation.properties[k].from
                                  ELSE doc.nodes[n].live[k]]],
      markers |-> doc.markers \o [i \in 1..Len(keys) |-> Marker(n, keys[i], animation)]]

\* the document after applyAnimation(n, animation): doc = [nodes, markers].  The
\* frames that target n are removed, then one frame is created for each entry
\* of properties whose key the node has
applyAnimation(doc, n, animation) ==
  LET keys == SelectSeq(<<"opacity", "x", "y", "rotation", "scale">>,
                        LAMBDA k : k \in AppliedKeys(n, animation))
  IN [nodes |-> [doc.nodes EXCEPT
                   ![n].props = <<Snapshot(animation)>>,
                   ![n].live = [k \in Capabilities(n) |->
                                  IF k \in AppliedKeys(n, animation)
                                  THEN animation.properties[k].from
                                  ELSE doc.nodes[n].live[k]]],
      markers |-> SelectSeq(doc.markers, LAMBDA m : m.target # n)
                    \o [i \in 1..Len(keys) |-> Marker(n, keys[i], animation)]]

\* the objects of a set in page order
RECURSIVE InOrder(_)
InOrder(S) ==
  IF S = {} THEN <<>>
  ELSE LET least == CHOOSE x \in S : \A y \in S : x <= y
       IN <<least>> \o InOrder(S \ {least})

\* the loop writing the tag and leaving the snapshot and the frames as they were
RECURSIVE ApplyEachTagsOnly(_, _, _, _)
ApplyEachTagsOnly(doc, list, tag, animation) ==
  IF list = <<>> THEN doc
  ELSE LET n == Head(list)
       IN IF Animatable(n) /\ tag # NoTag
          THEN ApplyEachTagsOnly([doc EXCEPT !.nodes[n].tag = tag], Tail(list), tag, animation)
          ELSE ApplyEachTagsOnly(doc, Tail(list), tag, animation)

\* for (const node of list) if (animatable) { [tag it;] await applyAnimation(node, animation) }
RECURSIVE ApplyEach(_, _, _, _)
ApplyEach(doc, list, tag, animation) ==
  IF list = <<>> THEN doc
  ELSE LET n == Head(list)
           tagged == IF tag = NoTag THEN doc
                     ELSE [doc EXCEPT !.nodes[n].tag = tag]
       IN IF Animatable(n)
          THEN ApplyEach(applyAnimation(tagged, n, animation), Tail(list), tag, animation)
          ELSE ApplyEach(doc, Tail(list), tag, animation)

Document == [nodes |-> nodes, markers |-> markers]

\* the page is new, or it was left by an earlier run of the plugin with object 2
\* tagged and its transition frame in place
CtlInit ==
  /\ animationStore = EmptyMap
  /\ isInitialized = FALSE
  /\ ctlLoad = "pending"
  /\ inbox = <<>>
  /\ handlers = {}
  /\ \/ /\ nodes = [n \in Nodes |->
                      [tag |-> NoTag, props |-> <<>>,
                       live |-> [k \in Capabilities(n) |-> Num(1)]]]
        /\ markers = <<>>
     \/ /\ nodes = [n \in Nodes |->
                      IF n = 2
                      THEN [tag |-> NameB, props |-> <<Snapshot(FadeOut)>>,
                            live |-> [k \in Capabilities(n) |-> Num(1)]]
                      ELSE [tag |-> NoTag, props |-> <<>>,
                            live |-> [k \in Capabilities(n) |-> Num(1)]]]
        /\ markers = <<Marker(2, "opacity", FadeOut)>>
  /\ selection = {}
  /\ lastNote = Note("", 0)
  /\ lastPost = NoPost
  /\ nsent = 0
  /\ ndelivered = 0


(***************************************************************************)
(* findSimilarAnimations()                                                 *)
(***************************************************************************)
\* animationMap.get(name).push(node), creating the entry on first use
AddToGroup(groups, name, n) ==
  IF \E i \in DOMAIN groups : groups[i][1] = name
  THEN [i \in DOMAIN groups |->
          IF groups[i][1] = name THEN <<name, Append(groups[i][2], n)>> ELSE groups[i]]
  ELSE Append(groups, <<name, <<n>>>>)

RECURSIVE GroupByTag(_, _, _)
GroupByTag(ns, list, groups) ==
  IF list = <<>> THEN groups
  ELSE GroupByTag(ns, Tail(list),
                  IF ns[Head(list)].tag # NoTag
                  THEN AddToGroup(groups, ns[Head(list)].tag, Head(list))
                  ELSE groups)

\* the filter with >= 1 in place of > 1: a tag on one object is reported
IsSharedOrSingle(group) == Len(group[2]) >= 1

\* the filter of the result: ([_, nodes]) => nodes.length > 1
IsShared(group) == Len(group[2]) > 1

findSimilarAnimations(ns) ==
  SelectSeq(GroupByTag(ns, InOrder({n \in Nodes : ns[n].tag # NoTag}), <<>>), IsShared)

(***************************************************************************)
(* The Controller's start-up and its message handler.                      *)
(***************************************************************************)
ctlRest == <<storeVars, simpleVars, valVars>>

\* initializePlugin(): getAsync answers
CtlLoadOk ==
  /\ ctlLoad = "pending"
  /\ ctlLoad' = "done"
  /\ animationStore' = storage
  /\ isInitialized' = TRUE
  /\ lastPost' = [type |-> "plugin-ready", isInitialized |-> TRUE, animations |-> <<>>]
  /\ UNCHANGED <<storage, inbox, handlers, nodes, markers, selection, lastNote, nsent,
                 ndelivered, ctlRest>>

\* initializePlugin(): getAsync rejects
CtlLoadFail ==
  /\ ctlLoad = "pending"
  /\ ctlLoad' = "done"
  /\ isInitialized' = FALSE
  /\ lastPost' = [type |-> "initialization-error", isInitialized |-> FALSE, animations |-> <<>>]
  /\ lastNote' = Note("Failed to initialize plugin", 0)
  /\ UNCHANGED <<storage, animationStore, inbox, handlers, nodes, markers, selection, nsent,
                 ndelivered, ctlRest>>

\* the UI posts a message to the Controller
Send(msg) ==
  /\ nsent < MaxMsgs
  /\ nsent' = nsent + 1
  /\ inbox' = Append(inbox, msg)
  /\ UNCHANGED <<storage, animationStore, isInitialized, ctlLoad, handlers, nodes, markers,
                 selection, lastNote, lastPost, ndelivered, ctlRest>>

\* the next message is taken from the channel and figma.ui.onmessage is called with it
Taken(type) ==
  /\ inbox # <<>>
  /\ Head(inbox).type = type
  /\ inbox' = Tail(inbox)
  /\ ndelivered' = ndelivered + 1

\* onmessage without the isInitialized gate
NeverStillInitializing(msg) == FALSE

\* if (!isInitialized && msg.type !== 'check-ready')
StillInitializing(msg) == ~isInitialized /\ msg.type # "check-ready"

\* onmessage while the Controller is not Ready
RejectMessage ==
  /\ inbox # <<>>
  /\ StillInitializing(Head(inbox))
  /\ Taken(Head(inbox).type)
  /\ lastNote' = Note("Plugin is still initializing", 0)
  /\ UNCHANGED <<storage, animationStore, isInitialized, ctlLoad, handlers, nodes, markers,
                 selection, lastPost, nsent, ctlRest>>

\* case 'check-ready'
CheckReady ==
  /\ Taken("check-ready")
  /\ lastPost' = [type |-> "plugin-ready", isInitialized |-> isInitialized, animations |-> <<>>]
  /\ UNCHANGED <<storage, animationStore, isInitialized, ctlLoad, handlers, nodes, markers,
                 selection, lastNote, nsent, ctlRest>>

\* a handler that has issued setAsync('animations', animationStore) and awaits it
Suspended(type, name, preset, dict) ==
  [id |-> ndelivered + 1, type |-> type, name |-> name, preset |-> preset, data |-> dict]

\* create-animation without the test of the dictionary: the entry is replaced
NeverHasAnimation(name) == FALSE

\* if (animationStore[name])
HasAnimation(name) == name \in DOMAIN animationStore

\* the create handler writing the dictionary's copy and leaving the dictionary
\* itself as it was while the write is under way
CreateAnimationWritesFirst ==
  /\ Taken("create-animation")
  /\ ~StillInitializing(Head(inbox))
  /\ LET msg == Head(inbox) IN
     IF HasAnimation(msg.name)
     THEN /\ lastNote' = Note("already exists", 0)
          /\ UNCHANGED <<animationStore, handlers>>
     ELSE /\ handlers' = handlers \cup
                {Suspended("create-animation", msg.name, msg.preset,
                           Put(animationStore, msg.name, msg.preset))}
          /\ UNCHANGED <<animationStore, lastNote>>
  /\ UNCHANGED <<storage, isInitialized, ctlLoad, nodes, markers, selection, lastPost, nsent,
                 ctlRest>>

\* case 'create-animation'
CreateAnimation ==
  /\ Taken("create-animation")
  /\ ~StillInitializing(Head(inbox))
  /\ LET msg == Head(inbox) IN
     IF HasAnimation(msg.name)
     THEN /\ lastNote' = Note("already exists", 0)
          /\ UNCHANGED <<animationStore, handlers>>
     ELSE /\ animationStore' = Put(animationStore, msg.name, msg.preset)
          /\ handlers' = handlers \cup
                {Suspended("create-animation", msg.name, msg.preset, animationStore')}
          /\ UNCHANGED lastNote
  /\ UNCHANGED <<storage, isInitialized, ctlLoad, nodes, markers, selection, lastPost, nsent,
                 ctlRest>>

\* handleApplyAnimation without the test of the selection
NeverNothingSelected == FALSE

\* if (selection.length === 0)
NothingSelected == selection = {}

\* the lookup with only its first half, msg.animationName
AnimationNamed(name) == name # NoTag

\* if (msg.animationName && animationStore[msg.animationName])
AnimationFound(name) == name # NoTag /\ name \in DOMAIN animationStore

\* animationStore[msg.animationName]: undefined for a name that is no key
Lookup(name) == IF name \in DOMAIN animationStore THEN animationStore[name] ELSE NoPreset

\* case 'apply-animation': handleApplyAnimation(msg)
ApplyAnimation ==
  /\ Taken("apply-animation")
  /\ ~StillInitializing(Head(inbox))
  /\ LET msg == Head(inbox) IN
     IF NothingSelected
     THEN /\ lastNote' = Note("Please select at least one object", 0)
          /\ UNCHANGED <<nodes, markers>>
     ELSE IF AnimationFound(msg.name)
     THEN LET doc == ApplyEach(Document, InOrder(selection), msg.name, Lookup(msg.name))
          IN /\ nodes' = doc.nodes
             /\ markers' = doc.markers
             /\ lastNote' = Note("Animation applied",
                                 Cardinality({n \in selection : Animatable(n)}))
     ELSE /\ lastNote' = Note("Animation not found", 0)
          /\ UNCHANGED <<nodes, markers>>
  /\ UNCHANGED <<storage, animationStore, isInitialized, ctlLoad, handlers, selection,
                 lastPost, nsent, ctlRest>>

\* handleFindSimilar without the length test: an empty result is posted too
FindSimilarPostsEmpty ==
  /\ Taken("find-similar")
  /\ ~StillInitializing(Head(inbox))
  /\ lastPost' = [type |-> "similar-found", isInitialized |-> isInitialized,
                  animations |-> findSimilarAnimations(nodes)]
  /\ UNCHANGED <<storage, animationStore, isInitialized, ctlLoad, handlers, nodes, markers,
                 selection, lastNote, nsent, ctlRest>>

\* case 'find-similar': handleFindSimilar()
FindSimilar ==
  /\ Taken("find-similar")
  /\ ~StillInitializing(Head(inbox))
  /\ LET similar == findSimilarAnimations(nodes) IN
     IF Len(similar) > 0
     THEN /\ lastPost' = [type |-> "similar-found", isInitialized |-> isInitialized,
                          animations |-> similar]
          /\ UNCHANGED lastNote
     ELSE /\ lastNote' = Note("No similar animations found", 0)
          /\ UNCHANGED lastPost
  /\ UNCHANGED <<storage, animationStore, isInitialized, ctlLoad, handlers, nodes, markers,
                 selection, nsent, ctlRest>>

\* case 'modify-shared': handleModifyShared(msg), up to its first await
ModifyShared ==
  /\ Taken("modify-shared")
  /\ ~StillInitializing(Head(inbox))
  /\ LET msg == Head(inbox) IN
     /\ animationStore' = Put(animationStore, msg.name, msg.preset)
     /\ handlers' = handlers \cup
           {Suspended("modify-shared", msg.name, msg.preset, animationStore')}
  /\ UNCHANGED <<storage, isInitialized, ctlLoad, nodes, markers, selection, lastNote,
                 lastPost, nsent, ctlRest>>

\* updateSharedAnimations(name, properties)
updateSharedAnimations(doc, name, properties) ==
  ApplyEach(doc, InOrder({n \in Nodes : doc.nodes[n].tag = name}), NoTag, properties)

\* setAsync resolves and the suspended handler runs to its end
CtlWriteOk(h) ==
  /\ h \in handlers
  /\ handlers' = handlers \ {h}
  /\ storage' = h.data
  /\ IF h.type = "create-animation"
     THEN /\ lastNote' = Note("created successfully", 0)
          /\ UNCHANGED <<nodes, markers>>
     ELSE LET doc == updateSharedAnimations(Document, h.name, h.preset)
          IN /\ nodes' = doc.nodes
             /\ markers' = doc.markers
             /\ lastNote' = Note("updated successfully", 0)
  /\ UNCHANGED <<animationStore, isInitialized, ctlLoad, inbox, selection, lastPost, nsent,
                 ndelivered, ctlRest>>

\* setAsync rejects.  The create handler awaits inside onmessage's try block, so
\* its catch notifies the error; handleModifyShared is called without await, so
\* its rejection reaches no catch block and the handler just ends.
CtlWriteFail(h) ==
  /\ h \in handlers
  /\ handlers' = handlers \ {h}
  /\ IF h.type = "create-animation"
     THEN lastNote' = Note("An error occurred", 0)
     ELSE UNCHANGED lastNote
  /\ UNCHANGED <<storage, animationStore, isInitialized, ctlLoad, inbox, nodes, markers,
                 selection, lastPost, nsent, ndelivered, ctlRest>>

\* the selectionchange listener recording the selection and re-applying nothing
SelectionChangeOnly(sel) ==
  /\ sel # selection
  /\ selection' = sel
  /\ UNCHANGED <<storage, animationStore, isInitialized, ctlLoad, inbox, handlers, nodes,
                 markers, lastNote, lastPost, nsent, ndelivered, ctlRest>>

\* figma.on('selectionchange'): the user selects a set of objects
SelectionChange(sel) ==
  /\ sel # selection
  /\ selection' = sel
  /\ IF isInitialized
     THEN LET known == {n \in sel : nodes[n].tag # NoTag /\ nodes[n].tag \in DOMAIN animationStore}
              RECURSIVE Reapply(_, _)
              Reapply(doc, list) ==
                IF list = <<>> THEN doc
                ELSE Reapply(applyAnimation(doc, Head(list),
                                            animationStore[doc.nodes[Head(list)].tag]),
                             Tail(list))
              doc == Reapply(Document, InOrder(known))
          IN nodes' = doc.nodes /\ markers' = doc.markers
     ELSE UNCHANGED <<nodes, markers>>
  /\ UNCHANGED <<storage, animationStore, isInitialized, ctlLoad, inbox, handlers, lastNote,
                 lastPost, nsent, ndelivered, ctlRest>>

(***************************************************************************)
(* The specifications.                                                     *)
(***************************************************************************)
Init ==
  /\ storage \in InitialBlobs
  /\ StoreInit
  /\ SimpleInit
  /\ CtlInit
  /\ ValidatorIdle

\* the variables of the other components, which the Store does not touch
storeRest == <<simpleVars, ctlVars, valVars>>

Next ==
  \/ InitCall /\ UNCHANGED storeRest
  \/ \E s \in DOMAIN seqs : ReadOk(s) /\ UNCHANGED storeRest
  \/ \E s \in DOMAIN seqs : ReadFail(s) /\ UNCHANGED storeRest
  \/ \E s \in DOMAIN seqs : Timeout(s) /\ UNCHANGED storeRest
  \/ StaleReadOk /\ UNCHANGED storeRest
  \/ StaleReadFail /\ UNCHANGED storeRest
  \/ \E s \in DOMAIN seqs : RetryInit(s) /\ UNCHANGED storeRest
  \/ Dispose /\ UNCHANGED storeRest
  \/ \E i \in SetInputs : SetAnimation(i[1], i[2]) /\ UNCHANGED storeRest
  \/ \E i \in UpdateInputs : UpdateAnimation(i[1], i[2]) /\ UNCHANGED storeRest
  \/ DeleteAnimation(NameA) /\ UNCHANGED storeRest
  \/ GetAnimation(NameA) /\ UNCHANGED storeRest
  \/ \E q \in Queries : SearchAnimations(q) /\ UNCHANGED storeRest
  \/ \E w \in DOMAIN writes : WriteOk(w) /\ UNCHANGED storeRest
  \/ \E w \in DOMAIN writes : WriteFail(w) /\ UNCHANGED storeRest
  \/ \E w \in DOMAIN writes : RetryWrite(w) /\ UNCHANGED storeRest

Spec == Init /\ [][Next]_vars

simpleRest == <<storeVars, ctlVars, valVars, uiPosted>>

NextSimple ==
  \/ SInitCall /\ UNCHANGED simpleRest
  \/ SReadOk /\ UNCHANGED simpleRest
  \/ SReadFail /\ UNCHANGED simpleRest
  \/ STimeout /\ UNCHANGED simpleRest
  \/ \E i \in SetInputs : SSetAnimation(i[1], i[2]) /\ UNCHANGED simpleRest
  \/ \E i \in UpdateInputs : SUpdateAnimation(i[1], i[2]) /\ UNCHANGED simpleRest
  \/ SDeleteAnimation(NameA) /\ UNCHANGED simpleRest
  \/ SGetAnimation(NameA) /\ UNCHANGED simpleRest
  \/ \E q \in Queries : SSearchAnimations(q) /\ UNCHANGED simpleRest
  \/ \E w \in DOMAIN sWrites : SWriteOk(w) /\ UNCHANGED simpleRest
  \/ \E w \in DOMAIN sWrites : SWriteFail(w) /\ UNCHANGED simpleRest

SpecSimple == Init /\ [][NextSimple]_vars

NextUI ==
  \/ SInitCall /\ UNCHANGED simpleRest
  \/ SReadOk /\ UNCHANGED simpleRest
  \/ SReadFail /\ UNCHANGED simpleRest
  \/ STimeout /\ UNCHANGED simpleRest
  \/ \E f \in FormInputs : CreateClick(f[1], f[2], f[3], f[4], f[5], f[6]) /\ UNCHANGED <<storeVars, ctlVars, valVars>>
  \/ SDeleteAnimation(NameA) /\ UNCHANGED simpleRest
  \/ \E w \in DOMAIN sWrites : SWriteOk(w) /\ UNCHANGED simpleRest
  \/ \E w \in DOMAIN sWrites : SWriteFail(w) /\ UNCHANGED simpleRest

SpecUI == Init /\ [][NextUI]_vars

CtlNext ==
  \/ CtlLoadOk
  \/ CtlLoadFail
  \/ \E m \in Msgs : Send(m)
  \/ RejectMessage
  \/ CheckReady
  \/ CreateAnimation
  \/ ApplyAnimation
  \/ FindSimilar
  \/ ModifyShared
  \/ \E h \in handlers : CtlWriteOk(h)
  \/ \E h \in handlers : CtlWriteFail(h)
  \/ \E sel \in Selections : SelectionChange(sel)

SpecCtl == Init /\ [][CtlNext]_vars

\* the Store started on a blob that fills it
(***************************************************************************)
(* The UI over the retry Store, and the Controller, on one persisted blob. *)
(* The create form exists once the Controller has announced plugin-ready   *)
(* and the Store's init() has resolved.                                    *)
(***************************************************************************)
\* createBtn click with the Store of types.ts: setAnimation, then the
\* create-animation message is posted to the Controller
UiCreate(name, type, duration, easing, description, group) ==
  LET animation == [MkPreset(type, duration, easing, getDefaultProperties(type))
                      EXCEPT !.description = TrimmedOrUndefined(description),
                             !.group = TrimmedOrUndefined(group)]
  IN  /\ isInitialized /\ initialized
      /\ nsent < MaxMsgs
      /\ ~(Trim(name) = <<>> \/ duration.s = "NaN" \/ duration.n <= 0)
      /\ SetAnimation(Trim(name), animation)
      /\ IF lastCall'.result = "ok"
         THEN /\ inbox' = Append(inbox, [type |-> "create-animation", name |-> Trim(name),
                                         preset |-> animation])
              /\ nsent' = nsent + 1
         ELSE UNCHANGED <<inbox, nsent>>
      /\ UNCHANGED <<animationStore, isInitialized, ctlLoad, handlers, nodes, markers,
                     selection, lastNote, lastPost, ndelivered, simpleVars, valVars>>

NextSync ==
  \/ InitCall /\ UNCHANGED storeRest
  \/ \E s \in DOMAIN seqs : ReadOk(s) /\ UNCHANGED storeRest
  \/ \E f \in FormInputs : UiCreate(f[1], f[2], f[3], f[4], f[5], f[6])
  \/ \E w \in DOMAIN writes : WriteOk(w) /\ UNCHANGED storeRest
  \/ CtlLoadOk
  \/ CreateAnimation
  \/ \E h \in handlers : CtlWriteOk(h)
  \/ \E h \in handlers : CtlWriteFail(h)

SpecSync == Init /\ [][NextSync]_vars

\* the blob holds MAX_ANIMATIONS valid entries, or one more: the Controller writes
\* its dictionary without a limit
InitFull ==
  /\ storage \in {FullBlob, Put(FullBlob, NameB, FadeIn)}
  /\ StoreInit
  /\ SimpleInit
  /\ CtlInit
  /\ ValidatorIdle

\* a name of the full blob
NameFull == <<"0", "0", "0">>

NextFull ==
  \/ InitCall /\ UNCHANGED storeRest
  \/ \E s \in DOMAIN seqs : ReadOk(s) /\ UNCHANGED storeRest
  \/ \E i \in SetInputs : SetAnimation(i[1], i[2]) /\ UNCHANGED storeRest
  \/ DeleteAnimation(NameFull) /\ UNCHANGED storeRest
  \/ \E w \in DOMAIN writes : WriteOk(w) /\ UNCHANGED storeRest
  \/ \E w \in DOMAIN writes : WriteFail(w) /\ UNCHANGED storeRest
  \/ \E w \in DOMAIN writes : RetryWrite(w) /\ UNCHANGED storeRest

SpecFull == InitFull /\ [][NextFull]_vars

valRest == <<storage, storeVars, simpleVars, ctlVars>>

InitValidate ==
  /\ storage = EmptyMap
  /\ StoreInit
  /\ SimpleInit
  /\ CtlInit
  /\ ValidatorInit

NextValidate ==
  \/ ValidateRetry /\ UNCHANGED valRest
  \/ ValidateSimple /\ UNCHANGED valRest

SpecValidate == InitValidate /\ [][NextValidate]_vars


(***************************************************************************)
(* Claims about Store.init.                                                *)
(***************************************************************************)
Unsettled(s) == s \in DOMAIN seqs /\ seqs[s].phase \in {"racing", "delay"}

\* an init() call is made in this step
InitCalled == Len(callers') = Len(callers) + 1

\* a call of init() made while a load sequence is in flight joins that sequence
\* and starts nothing (on a Store that dispose() was not called on)
JoinsLoadInFlight ==
  (InitCalled /\ ndispose = 0 /\ ~initialized /\ Unsettled(Len(seqs)))
    => /\ seqs' = seqs
       /\ staleReads' = staleReads
       /\ initTimeoutId' = initTimeoutId
       /\ callers'[Len(callers')].seq = Len(seqs)

\* the callers of one load sequence have observed the same outcome
OutcomesAgree ==
  \A i, j \in DOMAIN callers :
    (callers[i].seq = callers[j].seq /\ callers[i].seq # 0)
      => callers[i].outcome = callers[j].outcome

\* C1: init() called N times while the Store is not Ready and the first call has
\* not settled starts exactly one load sequence, and all N callers observe the
\* same outcome.
C1_OneLoadPerInit == [][JoinsLoadInFlight]_vars /\ []OutcomesAgree

\* two callers joined one load sequence and both were told that it failed
C1_Witness ==
  \E i, j \in DOMAIN callers :
    /\ i # j
    /\ callers[i].seq = callers[j].seq
    /\ callers[i].seq # 0
    /\ callers[i].outcome = "failed"
    /\ callers[j].outcome = "failed"

\* every init() call made so far on the single-attempt Store has reported failure
AllInitsFailedSimple ==
  /\ Len(sCallers) > 0
  /\ \A i \in DOMAIN sCallers : sCallers[i] = "failed"

\* C2: after init() has reported a terminal failure, every later call of
\* getAnimation, setAnimation, updateAnimation, deleteAnimation or
\* searchAnimations fails with the 'Store not initialized' error.
C2_UnusableAfterFailure ==
  [][(AllInitsFailedSimple /\ sNcalls' = sNcalls + 1)
       => sLastCall'.result = NotInitialized]_vars

\* the attempts of a load sequence are numbered 1..MAX_RETRIES, and a sequence
\* that failed has made them all
AttemptsBounded ==
  \A s \in DOMAIN seqs :
    /\ seqs[s].attempt \in 1..MAX_RETRIES
    /\ seqs[s].phase = "failed" => seqs[s].attempt = MAX_RETRIES

\* an attempt starts only after the previous one has failed or timed out, and a
\* sequence that ends in failure leaves the Store not Ready and rejects to its callers
AttemptsInTurn ==
  \A s \in DOMAIN seqs :
    /\ seqs'[s].attempt # seqs[s].attempt
         => /\ seqs[s].phase = "delay"
            /\ seqs'[s].attempt = seqs[s].attempt + 1
    /\ (seqs[s].phase # "failed" /\ seqs'[s].phase = "failed")
         => /\ seqs[s].phase = "racing"
            /\ ~initialized'
            /\ \A i \in DOMAIN callers :
                 callers[i].seq = s => callers'[i].outcome = "failed"

\* C3: one load sequence makes at most MAX_RETRIES attempts, each started only
\* after the previous one failed or timed out; when all fail it rejects to the
\* caller with initialized = false.
C3_BoundedRetries == []AttemptsBounded /\ [][AttemptsInTurn]_vars

\* a load sequence has failed after its last attempt and its caller was told so
C3_Witness ==
  \E s \in DOMAIN seqs :
    /\ seqs[s].phase = "failed"
    /\ seqs[s].attempt = MAX_RETRIES
    /\ ~initialized
    /\ \E i \in DOMAIN callers : callers[i].seq = s /\ callers[i].outcome = "failed"

(***************************************************************************)
(* Claims about the Store's mutating methods.                              *)
(***************************************************************************)
\* a Store method is called in this step
MethodCalled(op) == ncalls' = ncalls + 1 /\ lastCall'.op = op

\* C4: on a Ready Store, setAnimation for a name that is already in the
\* collection fails and leaves the existing entry unchanged.
C4_SetNeverOverwrites ==
  [][(MethodCalled("set") /\ initialized /\ lastCall'.name \in DOMAIN animations)
       => /\ lastCall'.result # "ok"
          /\ animations' = animations]_vars

\* the frame of a rejected updateAnimation: no entry is added, no write is started
UpdateLeavesStore == animations' = animations /\ writes' = writes

\* C5 as stated: on a Ready Store, updateAnimation for a name that is not in the
\* collection fails with 'does not exist', adds no entry and starts no write.
C5_UpdateAbsentDoesNotExist ==
  [][(MethodCalled("update") /\ initialized /\ lastCall'.name \notin DOMAIN animations)
       => /\ lastCall'.result = "does not exist"
          /\ UpdateLeavesStore]_vars

\* C5 as amended: on a Ready Store, updateAnimation for a name that is not in the
\* collection fails, with 'does not exist' when the preset passes validation and
\* with 'Invalid animation preset' when it does not, adds no entry and starts
\* no write.
C5_UpdateAbsentRejected ==
  [][(MethodCalled("update") /\ initialized /\ lastCall'.name \notin DOMAIN animations)
       => /\ lastCall'.result = IF validateAnimation(lastCall'.preset)
                                THEN "does not exist" ELSE "Invalid animation preset"
          /\ UpdateLeavesStore]_vars

\* updateAnimation was called with a valid preset on a Ready Store that does not
\* hold the name, and was rejected
C5_Witness ==
  /\ lastCall.op = "update"
  /\ lastCall.result = "does not exist"
  /\ initialized
  /\ lastCall.name \notin DOMAIN animations
  /\ writes = <<>>

\* C6: when every write attempt of a mutation's persistence fails, the write is
\* attempted at most MAX_RETRIES times and the failure is delivered to the
\* caller of the mutating method.
C6_PersistFailureReachesCaller ==
  \A w \in DOMAIN writes :
    /\ writes[w].attempt <= MAX_RETRIES
    /\ writes[w].phase = "failed" => writes[w].observed = "failed"

(***************************************************************************)
(* Claims about the Controller.                                            *)
(***************************************************************************)
\* C7: once the handler of one message has started, no handler of a later
\* message starts until the first has finished all its effects.
C7_HandlersNeverInterleave == [][handlers # {} => ndelivered' = ndelivered]_vars

\* the handler of the next message starts in this step
HandlerStarts == inbox # <<>> /\ ndelivered' = ndelivered + 1

\* C8: while the Controller is not Ready, a message other than check-ready is
\* answered with the 'still initializing' notification and changes neither the
\* dictionary, the persisted blob nor any object of the document.
C8_RejectedWhileInitializing ==
  [][(HandlerStarts /\ ~isInitialized /\ Head(inbox).type # "check-ready")
       => /\ lastNote' = Note("Plugin is still initializing", 0)
          /\ UNCHANGED <<animationStore, storage, nodes, markers, handlers, isInitialized>>]_vars

\* a message was rejected by a Controller that is not Ready
C8_Witness ==
  /\ ~isInitialized
  /\ ndelivered > 0
  /\ lastNote = Note("Plugin is still initializing", 0)

\* C9: after the Controller has handled modify-shared(name, newPreset), the
\* dictionary entry and the persisted entry for name equal newPreset and every
\* object tagged with name carries the snapshot of newPreset.
C9_ModifySharedPropagates ==
  [][\A h \in handlers :
       (h.type = "modify-shared" /\ h \notin handlers')
         => /\ h.name \in DOMAIN animationStore'
            /\ animationStore'[h.name] = h.preset
            /\ h.name \in DOMAIN storage'
            /\ storage'[h.name] = h.preset
            /\ \A n \in Nodes :
                 nodes'[n].tag = h.name => nodes'[n].props = <<Snapshot(h.preset)>>]_vars

\* the tags carried by more than one object, each with the objects carrying it
SharedTags(ns) ==
  {<<t, {n \in Nodes : ns[n].tag = t}>> :
     t \in {ns[n].tag : n \in {m \in Nodes : ns[m].tag # NoTag
                                 /\ \E k \in Nodes : k # m /\ ns[k].tag = ns[m].tag}}}

\* a posted result as a set of (tag, set of objects)
PostedGroups(post) ==
  {<<post.animations[i][1],
     {post.animations[i][2][j] : j \in DOMAIN post.animations[i][2]}>> :
     i \in DOMAIN post.animations}

\* C10: the result of find-similar holds exactly the tags carried by more than
\* one object, each with all the objects carrying it: no group has one member
\* and no untagged object is in a group.
C10_FindSimilarGroups ==
  [][(HandlerStarts /\ isInitialized /\ Head(inbox).type = "find-similar")
       => IF SharedTags(nodes) = {}
          THEN lastPost' = lastPost
          ELSE /\ lastPost'.type = "similar-found"
               /\ PostedGroups(lastPost') = SharedTags(nodes)
               /\ Len(lastPost'.animations) = Cardinality(SharedTags(nodes))
               /\ \A i \in DOMAIN lastPost'.animations :
                    Len(lastPost'.animations[i][2]) > 1]_vars

\* find-similar has returned the two objects that share a tag, and the page
\* holds an object without a tag
C10_Witness ==
  /\ lastPost.type = "similar-found"
  /\ \E i \in DOMAIN lastPost.animations : lastPost.animations[i][2] = <<1, 2>>
  /\ nodes[1].tag = nodes[2].tag
  /\ nodes[3].tag = NoTag

(***************************************************************************)
(* Claims about apply-animation and create-animation.                      *)
(***************************************************************************)
\* a Ready Controller starts to handle a message of this type
Handles(type) == HandlerStarts /\ isInitialized /\ Head(inbox).type = type

\* no object of the document changes: tags, snapshots, live values, markers
DocumentUnchanged == nodes' = nodes /\ markers' = markers

\* C11: apply-animation handled while nothing is selected notifies 'select at
\* least one object' and changes no object of the document and no dictionary entry.
C11_EmptySelectionRejected ==
  [][(Handles("apply-animation") /\ selection = {})
       => /\ lastNote' = Note("Please select at least one object", 0)
          /\ DocumentUnchanged
          /\ animationStore' = animationStore]_vars

\* apply-animation was answered with the notification while nothing is selected
C11_Witness ==
  /\ isInitialized
  /\ selection = {}
  /\ lastNote = Note("Please select at least one object", 0)
  /\ \A n \in Nodes : nodes[n].tag = NoTag

Exposes(n) == Capabilities(n) \cap {"opacity", "x", "rotation"} # {}

CreateEnds(h) == h \in handlers /\ h.type = "create-animation" /\ h \notin handlers'

C15_ReadyHoldsValidEntries ==
  sInitialized =>
    \A k \in DOMAIN sAnimations :
      validateAnimationName(k) /\ validateAnimationSimple(sAnimations[k])

\* every entry of a collection has a valid name and a valid preset
OnlyValidEntries(anims) ==
  \A k \in DOMAIN anims : validateAnimationName(k) /\ validateAnimation(anims[k])

C17_EmptyQueryFindsNothing ==
  [][(sNcalls' = sNcalls + 1 /\ sLastCall'.op = "search" /\ sInitialized
        /\ sLastCall'.name = <<>>)
       => sLastCall'.found = {}]_vars

(***************************************************************************)
(* Claims about preset validation.                                         *)
(***************************************************************************)
\* duration <= 0 or duration > 10000, as the comparison reads the value
OutOfRange(d) ==
  \/ ToNumber(d).s = "Infinity"
  \/ ToNumber(d).s = "" /\ (ToNumber(d).n <= 0 \/ ToNumber(d).n > MAX_DURATION)

\* every call made so far has rejected the preset
AllRejected == (\A i \in DOMAIN vRetry : ~vRetry[i]) /\ (\A i \in DOMAIN vSimple : ~vSimple[i])

\* the calls of one validator on the preset have all returned the same
SameVerdicts ==
  /\ \A i, j \in DOMAIN vRetry : vRetry[i] = vRetry[j]
  /\ \A i, j \in DOMAIN vSimple : vSimple[i] = vSimple[j]

\* a validation leaves the Store, the blob and the preset as they were
ValidationIsPure ==
  (vRetry' # vRetry \/ vSimple' # vSimple)
    => UNCHANGED <<storage, storeVars, simpleVars, vPreset>>

OtherwiseValid(p) ==
  /\ IsFinite(p.duration) /\ p.duration.n > 0 /\ p.duration.n <= MAX_DURATION
  /\ p.easing # ""

\* properties.opacity is present and its from and to are numbers within [0, 1]
OpacityInUnitRange(props) ==
  /\ "opacity" \in DOMAIN props
  /\ IsFinite(props["opacity"].from) /\ IsFinite(props["opacity"].to)
  /\ props["opacity"].from.n \in 0..1
  /\ props["opacity"].to.n \in 0..1

\* C19: a fade preset whose type, duration and easing are valid passes
\* validation if and only if properties.opacity is present and its from and to
\* are both numbers within [0, 1].
C19_FadeValidIffOpacityInRange ==
  \A i \in DOMAIN vSimple :
    (vPreset.type = "fade" /\ OtherwiseValid(vPreset))
      => (vSimple[i] <=> OpacityInUnitRange(vPreset.properties))

\* at least one of x and y is present and each one present has a numeric from
\* and a numeric to
PositionsNumeric(props) ==
  /\ {"x", "y"} \cap DOMAIN props # {}
  /\ \A k \in {"x", "y"} \cap DOMAIN props : IsNumber(props[k].from) /\ IsNumber(props[k].to)

\* C20: a slide preset with otherwise valid fields is accepted only if x or y is
\* present and each of them that is present has a numeric from and a numeric to;
\* a slide where x has only from and y has only to is rejected.
C20_SlideNeedsNumericPositions ==
  \A i \in DOMAIN vSimple :
    (vPreset.type = "slide" /\ OtherwiseValid(vPreset) /\ vSimple[i])
      => PositionsNumeric(vPreset.properties)

\* properties.rotation is present and its from and to are numbers
RotationNumeric(props) ==
  /\ "rotation" \in DOMAIN props
  /\ IsNumber(props["rotation"].from) /\ IsNumber(props["rotation"].to)

\* C21: a rotate preset with otherwise valid fields passes validation if and only
\* if properties.rotation is present with a numeric from and a numeric to, of any
\* size; a preset whose type is none of fade, slide, scale, rotate is rejected.
C21_RotateValidIffRotationNumeric ==
  \A i \in DOMAIN vSimple :
    /\ (vPreset.type = "rotate" /\ OtherwiseValid(vPreset))
         => (vSimple[i] <=> RotationNumeric(vPreset.properties))
    /\ vPreset.type \notin {"fade", "slide", "scale", "rotate"} => ~vSimple[i]

\* C22: on a Ready Store whose collection holds MAX_ANIMATIONS entries,
\* setAnimation with a valid new name and a valid preset fails with the capacity
\* error and leaves the collection and the persisted blob unchanged.
C22_FullStoreRejectsSet ==
  [][(MethodCalled("set") /\ initialized
        /\ Cardinality(DOMAIN animations) >= MAX_ANIMATIONS
        /\ validateAnimationName(lastCall'.name)
        /\ lastCall'.name \notin DOMAIN animations
        /\ validateAnimation(lastCall'.preset))
       => /\ lastCall'.result = "Maximum number of animations reached"
          /\ animations' = animations
          /\ storage' = storage
          /\ writes' = writes]_vars

\* setAnimation("a", valid preset) was rejected by a Store that holds
\* MAX_ANIMATIONS entries
C22_Witness ==
  /\ initialized
  /\ Cardinality(DOMAIN animations) = MAX_ANIMATIONS
  /\ lastCall.op = "set"
  /\ lastCall.name = NameA
  /\ validateAnimation(lastCall.preset)
  /\ lastCall.result = "Maximum number of animations reached"
  /\ storage = FullBlob

(***************************************************************************)
(* Claims about init() on a Ready or a failed Store.                       *)
(***************************************************************************)
\* C23: init() called on a Ready Store is a no-op: it starts no storage read and
\* no timer and leaves the collection and the initialized flag unchanged.
C23_InitOnReadyIsNoOp ==
  [][(InitCalled /\ initialized)
       => /\ seqs' = seqs
          /\ staleReads' = staleReads
          /\ initTimeoutId' = initTimeoutId
          /\ animations' = animations
          /\ initialized' = initialized
          /\ storage' = storage
          /\ callers'[Len(callers')].outcome = "ok"]_vars

\* init() was called on a Ready Store and returned at once
C23_Witness ==
  /\ initialized
  /\ \E i \in DOMAIN callers : callers[i].seq = 0 /\ callers[i].outcome = "ok"
  /\ Len(seqs) = 1

\* the load attempt has timed out and its storage read is still pending
TimedOutReadPending == sPromise = "rejected" /\ sRead = "pending"

\* C24: a load attempt whose storage read has not completed when INIT_TIMEOUT
\* elapses counts as failed: the Store is not marked Ready by it, and the
\* sequence goes on to its retry or its terminal failure without waiting for
\* the read.
C24_TimedOutAttemptNeverReady ==
  [][/\ TimedOutReadPending => ~sInitialized'
     /\ (sTimer /\ ~sTimer' /\ sRead = "pending" /\ sRead' = "pending")
          => (sPromise' = "rejected" /\ \A i \in DOMAIN sCallers' : sCallers'[i] = "failed")]_vars

\* C25: after init() has failed terminally, a later call of init() starts a
\* fresh load sequence, so that the Store reaches Ready if storage then answers;
\* a past failure does not make every future init() fail.
C25_InitAfterFailureLoadsAgain ==
  [][(AllInitsFailedSimple /\ ~sInitialized /\ sRead = "done"
        /\ Len(sCallers') = Len(sCallers) + 1)
       => /\ sRead' = "pending"
          /\ sCallers'[Len(sCallers')] = "pending"]_vars

\* the reasons for which setAnimation and updateAnimation refuse an input
ValidationReasons ==
  {"Invalid animation name", "Invalid animation preset", "Maximum number of animations reached"}

\* C26: a setAnimation or updateAnimation rejected for a validation reason returns
\* its error in the call itself, leaves the collection exactly as it was, and
\* neither starts a write nor changes the attempts of a write under way.
C26_ValidationRejectLeavesStore ==
  [][(ncalls' = ncalls + 1 /\ lastCall'.op \in {"set", "update"}
        /\ lastCall'.result \in ValidationReasons)
       => UpdateLeavesStore]_vars

\* a Ready Store with an entry, and a write under way, has just refused a preset
C26_Witness ==
  /\ initialized /\ animations # EmptyMap /\ Len(writes) > 0
  /\ lastCall.op \in {"set", "update"}
  /\ lastCall.result \in ValidationReasons

C28_UpdateMerges ==
  [][(sNcalls' = sNcalls + 1 /\ sLastCall'.op = "update" /\ sLastCall'.result = "ok")
       => sAnimations'[sLastCall'.name]
            = Merge(sAnimations[sLastCall'.name], sLastCall'.preset)]_vars

C30_OneMarkerPerAppliedKey ==
  \A n \in Nodes : \A k \in PropKeys :
    Cardinality({i \in DOMAIN markers : markers[i].target = n /\ markers[i].key = k})
      = IF /\ nodes[n].props # <<>>
           /\ k \in DOMAIN nodes[n].props[1].properties
           /\ k \in Capabilities(n)
        THEN 1 ELSE 0

\* object 1 carries the preset with the keys opacity and scale, of which it has
\* opacity only, and the one frame that targets it is the frame for opacity
C30_Witness ==
  /\ nodes[1].props # <<>>
  /\ DOMAIN nodes[1].props[1].properties = {"opacity", "scale"}
  /\ \E i \in DOMAIN markers : markers[i].target = 1 /\ markers[i].key = "opacity"
  /\ Cardinality({i \in DOMAIN markers : markers[i].target = 1}) = 1

(***************************************************************************)
(* Claims about the selection-change reaction.                             *)
(***************************************************************************)
\* the transition frames that target object n, in page order
FramesOf(ms, n) == SelectSeq(ms, LAMBDA m : m.target = n)

C33_ReadyCollectionOwnedByMethods ==
  [][(initialized /\ initialized' /\ animations' # animations)
       => /\ ncalls' = ncalls + 1
          /\ lastCall'.op \in {"set", "update", "delete"}
          /\ lastCall'.result = "ok"]_vars

(***************************************************************************)
(* Claims about the snapshots and the dictionary.                          *)
(***************************************************************************)
\* C34: whenever no handler of the Controller is in progress, every object that
\* can be animated and whose tag is a key of the dictionary carries the snapshot
\* of the dictionary's current preset for that tag.
C34_SnapshotsFollowDictionary ==
  handlers = {}
    => \A n \in Nodes :
         (Animatable(n) /\ nodes[n].tag # NoTag /\ nodes[n].tag \in DOMAIN animationStore)
           => nodes[n].props = <<Snapshot(animationStore[nodes[n].tag])>>

(***************************************************************************)
(* Claims about the two copies of the collection.                          *)
(***************************************************************************)
\* C35: the Store and the Controller have loaded the same blob; once every
\* create-animation message the UI has posted is handled, the name of the
\* create the Store accepted last is mapped by the Controller's dictionary to
\* the preset the Store accepted.
C35_CopiesAgreeOnCreated ==
  (inbox = <<>> /\ lastCall.op = "set" /\ lastCall.result = "ok")
    => /\ lastCall.name \in DOMAIN animationStore
       /\ animationStore[lastCall.name] = lastCall.preset

(***************************************************************************)
(* Claims about the Store's writes to the shared blob.                     *)
(***************************************************************************)
\* a write attempt of the Store completes in this step
StoreWriteCompletes(w) == Writing(w) /\ writes'[w].phase = "ok"

\* C36 as stated: a write of the Store removes no name from the persisted blob
\* (no Store method deletes an entry in these behaviours).
C36_StoreWriteKeepsBlobEntries ==
  [][\A w \in DOMAIN writes :
       StoreWriteCompletes(w) => DOMAIN storage \subseteq DOMAIN storage']_vars

\* C36 as amended: a write of the Store replaces the whole blob: after it the
\* blob is exactly the collection the Store serialised for that attempt, and a
\* name of the old blob that the Store does not hold is gone.
C36_StoreWriteReplacesBlob ==
  [][\A w \in DOMAIN writes :
       StoreWriteCompletes(w)
         => /\ storage' = writes[w].data
            /\ \A k \in DOMAIN storage :
                 k \notin DOMAIN writes[w].data => k \notin DOMAIN storage']_vars

\* a write of the Store has completed and the blob has lost the entry that the
\* Store discarded at load and that the Controller still holds
C36_Witness ==
  /\ \E w \in DOMAIN writes : writes[w].phase = "ok" /\ storage = writes[w].data
  /\ NameBad \in DOMAIN animationStore
  /\ NameBad \notin DOMAIN animations
  /\ NameBad \notin DOMAIN storage

(***************************************************************************)
(* Claims about the size of the collection.                                *)
(***************************************************************************)
\* C37: in every Ready state the collection of the Store holds at most
\* MAX_ANIMATIONS entries, whatever the persisted blob held at load.
C37_ReadyWithinCapacity ==
  initialized => Cardinality(DOMAIN animations) <= MAX_ANIMATIONS

(***************************************************************************)
(* Claims about dispose().                                                 *)
(***************************************************************************)
\* dispose() has run and init() has not been called since: no promise is stored
Disposed ==
  ndispose > 0 /\ initializationPromise = 0 /\ ~initialized /\ animations = EmptyMap

\* C38: a disposed Store stays uninitialized and empty in every step that is not
\* a call of init(): the load sequence that was in flight when dispose() ran
\* neither marks it Ready nor puts an entry into its collection.
C38_DisposedStaysEmpty ==
  [][(Disposed /\ Len(callers') = Len(callers))
       => (~initialized' /\ animations' = EmptyMap)]_vars

(***************************************************************************)
(* Claims about what a write attempt stores.                               *)
(***************************************************************************)
\* no write of the Store is under way or waiting for its retry, and the chain of
\* the most recent mutation has ended with a successful attempt
WritesSettled ==
  /\ writes # <<>>
  /\ \A w \in DOMAIN writes : writes[w].phase \notin {"writing", "delay"}
  /\ writes[Len(writes)].phase = "ok"

\* C39: every write attempt, retries included, serialises the collection as it
\* is when the attempt starts; and whenever the Store is Ready, no write is
\* pending and the last attempt of the most recent mutation has succeeded, the
\* persisted blob equals the collection (the Controller writes nothing in these
\* behaviours).
C39_SettledBlobEqualsCollection ==
  (initialized /\ WritesSettled) => storage = animations

(***************************************************************************)
(* Claims about create-animation followed by apply-animation.              *)
(***************************************************************************)
\* the create handlers for this name whose storage write has not completed
CreatesUnderWay(name) == {h \in handlers : h.type = "create-animation" /\ h.name = name}

\* C40: when a Ready Controller starts to handle apply-animation(name) with
\* objects selected while a create-animation handler for that name is still
\* waiting for its storage write, the apply handler finds the name: it reports
\* 'applied' and gives every selected object that can be animated the name as
\* its tag and the dictionary's preset for the name as its snapshot.
C40_ApplyAfterCreateFindsName ==
  [][(Handles("apply-animation") /\ selection # {} /\ CreatesUnderWay(Head(inbox).name) # {})
       => /\ lastNote'.text = "Animation applied"
          /\ \A n \in selection :
               Animatable(n)
                 => /\ nodes'[n].tag = Head(inbox).name
                    /\ nodes'[n].props = <<Snapshot(animationStore[Head(inbox).name])>>]_vars

\* a preset was applied under a name whose create handler still waits for its write
C40_Witness ==
  /\ lastNote.text = "Animation applied" /\ lastNote.count >= 1
  /\ \E h \in handlers : h.type = "create-animation" /\ nodes[1].tag = h.name
  /\ nodes[1].props # <<>>

====
